---- MODULE Spec2Model ----
(***************************************************************************)
(* Model of the DAG taxonomy backend: the edge mutation service            *)
(* (EdgesService over EdgeRepository, DbRouter and the search index), the  *)
(* paths-to-root stream (TaxonomyPathStreamService over the parents        *)
(* cache), the recursive queries of ConceptRepository, the cursor          *)
(* pagination of SearchService, and the shortest-path and subgraph         *)
(* traversals of GraphService.                                             *)
(***************************************************************************)
EXTENDS Integers, Sequences, FiniteSets, TLC

\* ------------------------------------------------------------------------
\* Bounds of the model
\* ------------------------------------------------------------------------
NumCallers == 2
MaxCalls == 2
MaxStreams == 1

\* ------------------------------------------------------------------------
\* Program constants
\* ------------------------------------------------------------------------
\* one read replica configured (DATABASE_SLAVE1_HOST only)
NumSlaves == 1

\* Rows of the concepts table, and an id that has no row.
ConceptIds == {"A", "B", "C", "D", "E"}
MissingId == "Z"
\* The (parentId, childId) pairs that create requests are issued with: the
\* two directions of one edge, a self-loop, and a missing parent or child.
CreateEdges == {<<"A", "B">>, <<"B", "A">>, <<"A", "A">>,
                <<MissingId, "A">>, <<"A", MissingId>>}
\* The pairs that delete requests are issued with.
RemoveEdges == {<<"A", "B">>}

Callers == 1..NumCallers
Slaves == 1..NumSlaves

VARIABLES
  edges,              \* edges table on the master: set of <<parent_id, child_id>>
  binlog,             \* row changes committed on the master that some replica
                      \* has not applied yet, in commit order
  slaveEdges,         \* edges table as each read replica currently has it
  slavePos,           \* number of entries of binlog each replica has applied
  currentSlaveIndex,  \* DbRouter.currentSlaveIndex (0-based)
  index,              \* search index: parent_ids of the document of each concept
  call,               \* the edge request each caller is executing
  callsStarted,       \* number of edge requests issued so far
  cache,              \* TaxonomyCacheService: taxonomy:parents:<id> entries
  stream,             \* locals of the running executeStream
  items,              \* the async callbacks of the current batch
  events,             \* PathChunks the consumer has received
  stopped,            \* the Subject has completed
  subscribed,         \* the consumer is still subscribed
  streamsStarted,     \* number of stream requests issued so far
  concepts,           \* ids of the rows of the concepts table on the master
  conceptCache,       \* TaxonomyCacheService: ids with a taxonomy:concept:<id> entry
  pathsResult,        \* reply of the last GET /api/concepts/:id/paths
  docs,               \* search index: ids of the concepts that have a document
  session,            \* a client that pages through a listing, and what it got
  searchReply,        \* reply of the last search or listing request
  closureResult,      \* result of the last getAncestors or getDescendants call
  graphReply          \* reply of the last GraphService request

dbVars == <<edges, binlog, slaveEdges, slavePos, currentSlaveIndex>>
mutVars == <<index, call, callsStarted>>
streamVars == <<cache, stream, items, events, stopped, subscribed, streamsStarted>>
conceptVars == <<concepts, conceptCache>>
graphVars == <<closureResult, graphReply>>
readVars == <<pathsResult, docs, session, searchReply, graphVars>>
vars == <<dbVars, mutVars, streamVars, conceptVars, readVars>>

\* ------------------------------------------------------------------------
\* Graph helpers (the recursive CTEs of the repositories)
\* ------------------------------------------------------------------------
Parents(E, n) == {e[1] : e \in {x \in E : x[2] = n}}

Children(E, n) == {e[2] : e \in {x \in E : x[1] = n}}

RECURSIVE Expand(_, _)
Expand(E, S) ==
  LET S2 == S \cup {e[2] : e \in {x \in E : x[1] \in S}}
  IN IF S2 = S THEN S ELSE Expand(E, S2)

\* child_id values of path_cte: everything reachable from n by one or more edges
Reach(E, n) == Expand(E, Children(E, n))

\* UNION ALL never stops on a cycle reachable from the start node: the store
\* aborts the recursive query and the call fails.
CteDiverges(E, from) == \E n \in Reach(E, from) : n \in Reach(E, n)

canReach(E, fromId, toId) == toId \in Reach(E, fromId)

detectCycle(E, parentId, childId) == canReach(E, childId, parentId)

Acyclic(E) == \A n \in ConceptIds \cup {MissingId} : n \notin Reach(E, n)

\* ------------------------------------------------------------------------
\* DbRouter: round-robin read replica, master fallback when the replica fails
\* ------------------------------------------------------------------------
\* index after k calls of read()
AdvanceSlave(k) ==
  IF NumSlaves = 0 THEN currentSlaveIndex
  ELSE (currentSlaveIndex + k) % NumSlaves

\* the edge tables the k-th executeRead issued from the current state may see
executeRead(k) ==
  IF NumSlaves = 0 THEN {edges}
  ELSE {slaveEdges[((currentSlaveIndex + k - 1) % NumSlaves) + 1], edges}

ApplyChange(E, ch) ==
  IF ch.kind = "ins" THEN E \cup {ch.edge}
  ELSE IF ch.kind = "del" THEN E \ {ch.edge}
  ELSE {e \in E : e[1] # ch.id /\ e[2] # ch.id}   \* ON DELETE CASCADE

\* the concepts table of a replica: the rows of the master and those whose
\* deletion the replica has not applied yet
SlaveConcepts(s) ==
  concepts \cup {binlog[k].id : k \in {j \in (slavePos[s] + 1)..Len(binlog) :
                                        binlog[j].kind = "delConcept"}}

\* the concepts table as the k-th next DbRouter.executeRead may see it
executeReadConcepts(k) ==
  IF NumSlaves = 0 THEN {concepts}
  ELSE {SlaveConcepts(((currentSlaveIndex + k - 1) % NumSlaves) + 1), concepts}

Min(S) == CHOOSE x \in S : \A y \in S : x <= y

\* A replica applies the next committed change; changes that every replica
\* has applied are purged from the log.
Replicate(s) ==
  /\ slavePos[s] < Len(binlog)
  /\ slaveEdges' = [slaveEdges EXCEPT ![s] = ApplyChange(@, binlog[slavePos[s] + 1])]
  /\ LET pos == [slavePos EXCEPT ![s] = @ + 1]
         purged == Min({pos[x] : x \in Slaves})
     IN /\ slavePos' = [x \in Slaves |-> pos[x] - purged]
        /\ binlog' = SubSeq(binlog, purged + 1, Len(binlog))
  /\ UNCHANGED <<conceptVars, readVars,
                 edges, currentSlaveIndex, index, call, callsStarted, streamVars>>

\* ------------------------------------------------------------------------
\* EdgesService
\* ------------------------------------------------------------------------
IdleCall ==
  [pc |-> "idle", op |-> "none", parentId |-> "none", childId |-> "none",
   result |-> "none", wrote |-> FALSE, storeOk |-> FALSE, indexFailed |-> FALSE,
   checked |-> FALSE, sawMaster |-> FALSE, sawCompleted |-> FALSE,
   parents |-> {}]

Finish(c, res) == [call[c] EXCEPT !.pc = "done", !.result = res]

\* POST /api/edges: the two findById reads of create are issued together;
\* the concepts table does not change, so their answer is fixed at the call
CreateBegin(c, p, ch) ==
  /\ call[c].pc = "idle"
  /\ callsStarted < MaxCalls
  /\ callsStarted' = callsStarted + 1
  /\ currentSlaveIndex' = AdvanceSlave(2)
  /\ LET begun == [IdleCall EXCEPT !.op = "create", !.parentId = p, !.childId = ch]
     IN call' = [call EXCEPT ![c] =
          IF p \notin ConceptIds \/ ch \notin ConceptIds
            THEN [begun EXCEPT !.pc = "done", !.result = "NotFound"]
            ELSE [begun EXCEPT !.pc = "cycle"]]
  /\ UNCHANGED <<conceptVars, readVars,
                 edges, binlog, slaveEdges, slavePos, index, streamVars>>

\* edges of the master whose creation is not the work of a call still running
CompletedEdges(c) ==
  edges \ {<<call[d].parentId, call[d].childId>> :
             d \in {x \in Callers \ {c} : /\ call[x].op = "create"
                                          /\ call[x].pc \notin {"idle", "done"}}}

\* detectCycle run after the insert instead of before it
CreateCycleAfterInsert(c) ==
  /\ call[c].pc = "cycle"
  /\ currentSlaveIndex' = AdvanceSlave(1)
  /\ \E v \in executeRead(1) :
       LET seen == [call[c] EXCEPT !.checked = TRUE, !.sawMaster = (v = edges),
                            !.sawCompleted = (CompletedEdges(c) \subseteq v)]
           e == <<call[c].parentId, call[c].childId>>
       IN IF detectCycle(v, call[c].parentId, call[c].childId)
            THEN /\ edges' = edges \cup {e}
                 /\ binlog' = IF e \in edges THEN binlog
                              ELSE Append(binlog, [kind |-> "ins", edge |-> e])
                 /\ call' = [call EXCEPT ![c] =
                      [seen EXCEPT !.pc = "done", !.result = "BadRequest"]]
            ELSE /\ call' = [call EXCEPT ![c] = [seen EXCEPT !.pc = "insert"]]
                 /\ UNCHANGED <<edges, binlog>>
  /\ UNCHANGED <<conceptVars, readVars, slaveEdges, slavePos, index, callsStarted, streamVars>>

\* detectCycle of create
CreateCycle(c) ==
  /\ call[c].pc = "cycle"
  /\ currentSlaveIndex' = AdvanceSlave(1)
  /\ \E v \in executeRead(1) :
       call' = [call EXCEPT ![c] =
         LET seen == [call[c] EXCEPT !.checked = TRUE, !.sawMaster = (v = edges),
                            !.sawCompleted = (CompletedEdges(c) \subseteq v)]
         IN IF CteDiverges(v, call[c].childId)
              THEN [seen EXCEPT !.pc = "done", !.result = "error"]
            ELSE IF detectCycle(v, call[c].parentId, call[c].childId)
              THEN [seen EXCEPT !.pc = "done", !.result = "BadRequest"]
            ELSE [seen EXCEPT !.pc = "insert"]]
  /\ UNCHANGED <<conceptVars, readVars,
                 edges, binlog, slaveEdges, slavePos, index, callsStarted, streamVars>>

\* edgeRepo.create: the composite primary key rejects a duplicate row
CreateInsert(c) ==
  /\ call[c].pc = "insert"
  /\ LET e == <<call[c].parentId, call[c].childId>>
     IN IF e \in edges
          THEN /\ call' = [call EXCEPT ![c] = Finish(c, "error")]
               /\ UNCHANGED <<edges, binlog>>
          ELSE /\ edges' = edges \cup {e}
               /\ binlog' = Append(binlog, [kind |-> "ins", edge |-> e])
               /\ call' = [call EXCEPT ![c] = [call[c] EXCEPT !.pc = "syncRead",
                                               !.wrote = TRUE, !.storeOk = TRUE]]
  /\ UNCHANGED <<conceptVars, readVars,
                 slaveEdges, slavePos, currentSlaveIndex, index, callsStarted, streamVars>>

\* DELETE /api/edges/:parentId/:childId
RemoveBegin(c, p, ch) ==
  /\ call[c].pc = "idle"
  /\ callsStarted < MaxCalls
  /\ callsStarted' = callsStarted + 1
  /\ call' = [call EXCEPT ![c] = [IdleCall EXCEPT !.pc = "delete", !.op = "remove",
                                                 !.parentId = p, !.childId = ch]]
  /\ UNCHANGED <<conceptVars, readVars,
                 edges, binlog, slaveEdges, slavePos, currentSlaveIndex, index, streamVars>>

\* edgeRepo.delete: deleting a row that is not there is not an error
RemoveDelete(c) ==
  /\ call[c].pc = "delete"
  /\ LET e == <<call[c].parentId, call[c].childId>>
     IN /\ edges' = edges \ {e}
        /\ binlog' = IF e \in edges
                       THEN Append(binlog, [kind |-> "del", edge |-> e])
                       ELSE binlog
        /\ call' = [call EXCEPT ![c] = [call[c] EXCEPT !.pc = "syncRead",
                                        !.wrote = (e \in edges), !.storeOk = TRUE]]
  /\ UNCHANGED <<conceptVars, readVars,
                 slaveEdges, slavePos, currentSlaveIndex, index, callsStarted, streamVars>>

\* syncConceptToSearch: findById of the child, then its variants and its
\* parents (the third read); a child without a concept row is not indexed
SyncRead(c) ==
  /\ call[c].pc = "syncRead"
  /\ IF call[c].childId \notin ConceptIds
       THEN /\ currentSlaveIndex' = AdvanceSlave(1)
            /\ call' = [call EXCEPT ![c] = Finish(c, "ok")]
       ELSE /\ currentSlaveIndex' = AdvanceSlave(3)
            /\ \E v \in executeRead(3) :
                 call' = [call EXCEPT ![c] = [call[c] EXCEPT !.pc = "syncIndex",
                                              !.parents = Parents(v, call[c].childId)]]
  /\ UNCHANGED <<conceptVars, readVars,
                 edges, binlog, slaveEdges, slavePos, index, callsStarted, streamVars>>

\* searchService.indexConcept; a failure propagates out of create and is
\* turned into NotFound by the catch of remove
SyncIndex(c) ==
  /\ call[c].pc = "syncIndex"
  /\ \/ /\ index' = [index EXCEPT ![call[c].childId] = call[c].parents]
        /\ call' = [call EXCEPT ![c] = [Finish(c, "ok") EXCEPT !.wrote = TRUE, !.parents = {}]]
     \/ /\ UNCHANGED index
        /\ call' = [call EXCEPT ![c] =
             [Finish(c, IF call[c].op = "create" THEN "error" ELSE "NotFound")
                EXCEPT !.indexFailed = TRUE, !.parents = {}]]
  /\ UNCHANGED <<conceptVars, readVars,
                 edges, binlog, slaveEdges, slavePos, currentSlaveIndex, callsStarted, streamVars>>

\* the response has been sent
CallReturn(c) ==
  /\ call[c].pc = "done"
  /\ call' = [call EXCEPT ![c] = IdleCall]
  /\ UNCHANGED <<conceptVars, readVars,
                 edges, binlog, slaveEdges, slavePos, currentSlaveIndex, index,
                 callsStarted, streamVars>>

\* ------------------------------------------------------------------------
\* TaxonomyPathStreamService
\* ------------------------------------------------------------------------
DEFAULT_MAX_DEPTH == 25
DEFAULT_MAX_PATHS == 1000
DEFAULT_CONCURRENCY == 10
PROGRESS_INTERVAL == 50

Null == <<"null">>

\* the orders in which the store may return a set of rows
RowOrders(S) ==
  {q \in [1..Cardinality(S) -> S] : \A x \in S : \E k \in 1..Cardinality(S) : q[k] = x}

Reverse(q) == [k \in 1..Len(q) |-> q[Len(q) + 1 - k]]

InSeq(x, q) == \E k \in 1..Len(q) : q[k] = x

RECURSIVE Flatten(_)
Flatten(qs) == IF qs = <<>> THEN <<>> ELSE Head(qs) \o Flatten(Tail(qs))

RECURSIVE Keep(_, _)
Keep(q, S) ==
  IF q = <<>> THEN <<>>
  ELSE IF Head(q) \in S THEN <<Head(q)>> \o Keep(Tail(q), S) ELSE Keep(Tail(q), S)

\* the ids are resolved but left in stack order, target -> root
resolvePathIdsNoReverse(ids, known) == Keep(ids, known)

\* resolvePathIds: root -> target, the ids that are neither cached nor a row
\* of the concepts table dropped
resolvePathIds(ids, known) == Keep(Reverse(ids), known)

PathChunk(t, p, g) == [type |-> t, path |-> p, progress |-> g]

\* Subject.next: a completed Subject delivers nothing
SubjectNext(evs, chunks) ==
  IF stopped \/ ~subscribed THEN evs ELSE evs \o chunks

ColdCache == [n \in ConceptIds |-> Null]

\* what setParents has stored once every node of E has been visited
WarmCaches(E) ==
  {c \in [ConceptIds -> UNION {RowOrders(Parents(E, n)) : n \in ConceptIds}] :
     \A n \in ConceptIds : c[n] \in RowOrders(Parents(E, n))}

IdleStream ==
  [pc |-> "idle", conceptId |-> "none", maxDepth |-> 0, maxPaths |-> 0,
   concurrency |-> 0, pathsFound |-> 0, nodesProcessed |-> 0, queue |-> <<>>,
   edgesAtStart |-> {}, conceptsAtStart |-> {}, dropped |-> FALSE]

QueueItem(n, path, d) == [nodeId |-> n, currentPath |-> path, depth |-> d]

BatchItem(qi, st) ==
  [nodeId |-> qi.nodeId, currentPath |-> qi.currentPath, depth |-> qi.depth,
   st |-> st, parents |-> <<>>, out |-> <<>>]

Settled(it) == it.st \in {"finished", "failed"}

\* GET /api/concepts/:id/paths/stream
streamPathsToRoot(n, md, mp, conc) ==
  /\ stream.pc \in {"idle", "done", "failed"}
  /\ \A i \in 1..Len(items) : Settled(items[i])
  /\ streamsStarted < MaxStreams
  /\ streamsStarted' = streamsStarted + 1
  /\ stream' = [IdleStream EXCEPT !.pc = "start", !.conceptId = n, !.maxDepth = md,
                                  !.maxPaths = mp, !.concurrency = conc,
                                  !.edgesAtStart = edges,
                                  !.conceptsAtStart = concepts]
  /\ items' = <<>>
  /\ events' = <<>>
  /\ stopped' = FALSE
  /\ subscribed' = TRUE
  /\ UNCHANGED <<conceptVars, readVars, dbVars, mutVars, cache>>

\* executeStream up to the loop: getConceptCached (a cached concept is not
\* looked up in the store) and the initial stack; NotFoundException goes
\* through catch (error chunk) and finally (complete)
StreamStart ==
  /\ stream.pc = "start"
  /\ \E found \in IF stream.conceptId \in conceptCache THEN {"cached"}
                   ELSE {IF stream.conceptId \in C THEN "row" ELSE "none" :
                           C \in executeReadConcepts(1)} :
       /\ currentSlaveIndex' = IF found = "cached" THEN currentSlaveIndex
                                ELSE AdvanceSlave(1)
       /\ conceptCache' = IF found = "row" THEN conceptCache \cup {stream.conceptId}
                           ELSE conceptCache
       /\ IF found # "none"
            THEN /\ stream' = [stream EXCEPT !.pc = "loop",
                      !.queue = <<QueueItem(stream.conceptId, <<stream.conceptId>>, 0)>>]
                 /\ UNCHANGED <<events, stopped>>
            ELSE /\ stream' = [stream EXCEPT !.pc = "failed"]
                 /\ events' = SubjectNext(events, <<PathChunk("error", <<>>, <<>>)>>)
                 /\ stopped' = TRUE
  /\ UNCHANGED <<readVars, concepts, edges, binlog, slaveEdges, slavePos, mutVars,
                 cache, items, subscribed, streamsStarted>>

\* progress chunks of the visits first+1 .. first+n
ProgressChunks(first, n, found) ==
  LET hit == {k \in (first + 1)..(first + n) : k % PROGRESS_INTERVAL = 0}
      q == [j \in 1..n |-> IF (first + j) \in hit
                             THEN <<PathChunk("progress", <<>>, <<found, first + j>>)>>
                             ELSE <<>>]
  IN Flatten(q)

\* one turn of the while loop up to Promise.all: splice the batch off the end
\* of the stack and run every callback up to its first await
BatchStart ==
  /\ stream.pc = "loop"
  /\ Len(stream.queue) > 0
  /\ stream.pathsFound < stream.maxPaths
  /\ LET len == Len(stream.queue)
         batchStartIndex == IF len - stream.concurrency > 0
                              THEN len - stream.concurrency ELSE 0
         batch == SubSeq(stream.queue, batchStartIndex + 1, len)
         skip == stream.pathsFound >= stream.maxPaths
         visited == IF skip THEN 0 ELSE Len(batch)
     IN /\ items' = [k \in 1..Len(batch) |->
             IF skip THEN BatchItem(batch[k], "finished")
             ELSE IF batch[k].depth >= stream.maxDepth
               THEN BatchItem(batch[k], "resolve")
             ELSE BatchItem(batch[k], "cacheGet")]
        /\ stream' = [stream EXCEPT !.pc = "batch",
                        !.queue = SubSeq(stream.queue, 1, batchStartIndex),
                        !.nodesProcessed = @ + visited]
        /\ events' = SubjectNext(events,
             ProgressChunks(stream.nodesProcessed, visited, stream.pathsFound))
  /\ UNCHANGED <<conceptVars, readVars,
                 dbVars, mutVars, cache, stopped, subscribed, streamsStarted>>

\* the callback after getParentsCached has returned, without the cycle check
AfterParentsNoCycleCheck(it, parents) ==
  IF parents = <<>>
    THEN [it EXCEPT !.st = "resolve", !.parents = parents]
    ELSE [it EXCEPT !.st = "finished", !.parents = parents,
            !.out = [k \in 1..Len(parents) |->
                       QueueItem(parents[k], Append(it.currentPath, parents[k]),
                                 it.depth + 1)]]

\* the callback after getParentsCached has returned
AfterParents(it, parents) ==
  IF parents = <<>>
    THEN [it EXCEPT !.st = "resolve", !.parents = parents]
    ELSE [it EXCEPT !.st = "finished", !.parents = parents,
            !.out = Flatten([k \in 1..Len(parents) |->
                      IF InSeq(parents[k], it.currentPath) THEN <<>>
                      ELSE <<QueueItem(parents[k], Append(it.currentPath, parents[k]),
                                       it.depth + 1)>>])]

\* the error chunk is sent but the Subject is never completed
ItemThrowsNoComplete(i) ==
  /\ items' = [items EXCEPT ![i] = [@ EXCEPT !.st = "failed"]]
  /\ IF stream.pc = "batch"
       THEN /\ stream' = [stream EXCEPT !.pc = "failed"]
            /\ events' = SubjectNext(events, <<PathChunk("error", <<>>, <<>>)>>)
            /\ UNCHANGED stopped
       ELSE UNCHANGED <<stream, events, stopped>>

\* a callback throws: Promise.all rejects at the first rejection and, in the
\* same run of the promise job queue, catch sends the error chunk and finally
\* completes the Subject; the other callbacks of the batch are resumed only
\* by their own backend replies and keep running
ItemThrows(i) ==
  /\ items' = [items EXCEPT ![i] = [@ EXCEPT !.st = "failed"]]
  /\ IF stream.pc = "batch"
       THEN /\ stream' = [stream EXCEPT !.pc = "failed"]
            /\ events' = SubjectNext(events, <<PathChunk("error", <<>>, <<>>)>>)
            /\ stopped' = TRUE
       ELSE UNCHANGED <<stream, events, stopped>>

\* getParentsCached: cache.getParents answers (hit or miss) or fails
ItemCacheGet(i) ==
  /\ i \in 1..Len(items)
  /\ items[i].st = "cacheGet"
  /\ \/ /\ cache[items[i].nodeId] # Null
        /\ items' = [items EXCEPT ![i] = AfterParents(@, cache[items[i].nodeId])]
        /\ UNCHANGED <<stream, events, stopped>>
     \/ /\ cache[items[i].nodeId] = Null
        /\ items' = [items EXCEPT ![i] = [@ EXCEPT !.st = "dbRead"]]
        /\ UNCHANGED <<stream, events, stopped>>
     \/ ItemThrows(i)
  /\ UNCHANGED <<conceptVars, readVars, dbVars, mutVars, cache, subscribed, streamsStarted>>

\* getParentsCached: the edges query
ItemDbRead(i) ==
  /\ i \in 1..Len(items)
  /\ items[i].st = "dbRead"
  /\ currentSlaveIndex' = AdvanceSlave(1)
  /\ \E v \in executeRead(1) : \E rows \in RowOrders(Parents(v, items[i].nodeId)) :
       items' = [items EXCEPT ![i] = [@ EXCEPT !.st = "cacheSet", !.parents = rows]]
  /\ UNCHANGED <<conceptVars, readVars,
                 edges, binlog, slaveEdges, slavePos, mutVars, cache, stream, events,
                 stopped, subscribed, streamsStarted>>

\* getParentsCached: cache.setParents, then the callback goes on
ItemCacheSet(i) ==
  /\ i \in 1..Len(items)
  /\ items[i].st = "cacheSet"
  /\ cache' = [cache EXCEPT ![items[i].nodeId] = items[i].parents]
  /\ items' = [items EXCEPT ![i] = AfterParents(@, items[i].parents)]
  /\ UNCHANGED <<conceptVars, readVars,
                 dbVars, mutVars, stream, events, stopped, subscribed, streamsStarted>>

\* resolvePathIds returns (or fails): the concepts that were not cached are
\* loaded and cached, the path chunk is sent and counted
ItemResolve(i) ==
  /\ i \in 1..Len(items)
  /\ items[i].st = "resolve"
  /\ LET ids == {items[i].currentPath[k] : k \in 1..Len(items[i].currentPath)}
         missingIds == ids \ conceptCache
     IN \/ \E C \in executeReadConcepts(1) :
             /\ currentSlaveIndex' = IF missingIds = {} THEN currentSlaveIndex
                                      ELSE AdvanceSlave(1)
             /\ conceptCache' = conceptCache \cup (missingIds \cap C)
             /\ items' = [items EXCEPT ![i] = [@ EXCEPT !.st = "finished"]]
             /\ events' = SubjectNext(events,
                  <<PathChunk("path",
                      resolvePathIds(items[i].currentPath,
                                     conceptCache \cup (missingIds \cap C)), <<>>)>>)
             /\ stream' = [stream EXCEPT !.pathsFound = @ + 1,
                                         !.dropped = @ \/ (stopped /\ subscribed)]
             /\ UNCHANGED stopped
        \/ /\ ItemThrows(i)
           /\ UNCHANGED <<currentSlaveIndex, conceptCache>>
  /\ UNCHANGED <<readVars, concepts, edges, binlog, slaveEdges, slavePos, mutVars,
                 cache, subscribed, streamsStarted>>

\* Promise.all has resolved: push the new items unless maxPaths is reached
BatchEnd ==
  /\ stream.pc = "batch"
  /\ \A i \in 1..Len(items) : items[i].st = "finished"
  /\ stream' = [stream EXCEPT !.pc = "loop",
       !.queue = IF stream.pathsFound >= stream.maxPaths THEN @
                 ELSE @ \o Flatten([k \in 1..Len(items) |-> items[k].out])]
  /\ items' = <<>>
  /\ UNCHANGED <<conceptVars, readVars,
                 dbVars, mutVars, cache, events, stopped, subscribed, streamsStarted>>

\* the loop condition fails: the done chunk, then finally completes the Subject
StreamDone ==
  /\ stream.pc = "loop"
  /\ ~(Len(stream.queue) > 0 /\ stream.pathsFound < stream.maxPaths)
  /\ stream' = [stream EXCEPT !.pc = "done"]
  /\ events' = SubjectNext(events,
       <<PathChunk("done", <<>>, <<stream.pathsFound, stream.nodesProcessed>>)>>)
  /\ stopped' = TRUE
  /\ UNCHANGED <<conceptVars, readVars,
                 dbVars, mutVars, cache, items, subscribed, streamsStarted>>

\* the consumer disconnects
Unsubscribe ==
  /\ stream.pc \in {"start", "loop", "batch"}
  /\ subscribed
  /\ subscribed' = FALSE
  /\ UNCHANGED <<conceptVars, readVars,
                 dbVars, mutVars, cache, stream, items, events, stopped, streamsStarted>>

\* ------------------------------------------------------------------------
\* Specification of the mutation service
\* ------------------------------------------------------------------------
NoReply == [status |-> "none"]

IdleSession ==
  [op |-> "none", pc |-> "idle", pageSize |-> 0, pages |-> <<>>,
   cursor |-> [enc |-> "undefined"], prevCursor |-> [enc |-> "undefined"],
   stable |-> TRUE, present |-> {}, back |-> <<>>, backWith |-> "none"]

InitReadVars ==
  /\ pathsResult = NoReply
  /\ docs = ConceptIds
  /\ session = IdleSession
  /\ searchReply = NoReply
  /\ closureResult = NoReply
  /\ graphReply = NoReply

InitStreamVars ==
  /\ concepts = ConceptIds
  /\ conceptCache = {}
  /\ InitReadVars
  /\ cache \in {ColdCache}
  /\ stream = IdleStream
  /\ items = <<>>
  /\ events = <<>>
  /\ stopped = FALSE
  /\ subscribed = FALSE
  /\ streamsStarted = 0

InitStore(E) ==
  /\ edges = E
  /\ binlog = <<>>
  /\ slaveEdges = [s \in Slaves |-> E]
  /\ slavePos = [s \in Slaves |-> 0]
  /\ currentSlaveIndex = 0
  /\ index = [n \in ConceptIds |-> Parents(E, n)]
  /\ call = [c \in Callers |-> IdleCall]
  /\ callsStarted = 0

Init == InitStore({}) /\ InitStreamVars

Next ==
  \/ \E c \in Callers, e \in CreateEdges : CreateBegin(c, e[1], e[2])
  \/ \E c \in Callers : CreateCycle(c)
  \/ \E c \in Callers : CreateInsert(c)
  \/ \E c \in Callers, e \in RemoveEdges : RemoveBegin(c, e[1], e[2])
  \/ \E c \in Callers : RemoveDelete(c)
  \/ \E c \in Callers : SyncRead(c)
  \/ \E c \in Callers : SyncIndex(c)
  \/ \E c \in Callers : CallReturn(c)
  \/ \E s \in Slaves : Replicate(s)

Spec == Init /\ [][Next]_vars

\* ------------------------------------------------------------------------
\* Specification of the paths-to-root stream, with edge deletions going on
\* ------------------------------------------------------------------------
Diamond == {<<"A", "B">>, <<"A", "C">>, <<"B", "D">>, <<"C", "D">>}

StreamIds == {"D", MissingId}
MaxDepths == {1, DEFAULT_MAX_DEPTH}
MaxPathss == {1, DEFAULT_MAX_PATHS}
Concurrencies == {1, DEFAULT_CONCURRENCY}
\* edges a concurrent DELETE /edges request names while they exist
RemovedEdges == {<<"B", "D">>}
\* a batch holds at most `concurrency` callbacks
ItemSlots == 1..DEFAULT_CONCURRENCY

\* the cache is empty, or holds what earlier streams over the same edges left
InitStream ==
  /\ InitStore(Diamond)
  /\ concepts = ConceptIds
  /\ conceptCache = {}
  /\ InitReadVars
  /\ cache \in {ColdCache} \cup WarmCaches(Diamond)
  /\ stream = IdleStream
  /\ items = <<>>
  /\ events = <<>>
  /\ stopped = FALSE
  /\ subscribed = FALSE
  /\ streamsStarted = 0

NextStream ==
  \/ \E n \in StreamIds, md \in MaxDepths, mp \in MaxPathss, conc \in Concurrencies :
       streamPathsToRoot(n, md, mp, conc)
  \/ StreamStart
  \/ BatchStart
  \/ \E i \in ItemSlots : ItemCacheGet(i)
  \/ \E i \in ItemSlots : ItemDbRead(i)
  \/ \E i \in ItemSlots : ItemCacheSet(i)
  \/ \E i \in ItemSlots : ItemResolve(i)
  \/ BatchEnd
  \/ StreamDone
  \/ Unsubscribe
  \/ \E e \in RemovedEdges \cap edges : RemoveBegin(1, e[1], e[2])
  \/ RemoveDelete(1)
  \/ SyncRead(1)
  \/ SyncIndex(1)
  \/ CallReturn(1)
  \/ \E s \in Slaves : Replicate(s)

SpecStream == InitStream /\ [][NextStream]_vars

\* ------------------------------------------------------------------------
\* ConceptsService.remove
\* ------------------------------------------------------------------------
\* DELETE /api/concepts/:id: the row is deleted on the master and its edges
\* go with it; no cache entry is touched
ConceptRemove(id) ==
  /\ id \in concepts
  /\ currentSlaveIndex' = AdvanceSlave(1)
  /\ concepts' = concepts \ {id}
  /\ edges' = {e \in edges : e[1] # id /\ e[2] # id}
  /\ binlog' = Append(binlog, [kind |-> "delConcept", id |-> id])
  /\ docs' = docs \ {id}
  /\ UNCHANGED <<graphVars, pathsResult, session, searchReply, conceptCache, slaveEdges, slavePos,
                 mutVars, streamVars>>

\* ------------------------------------------------------------------------
\* ConceptsService / ConceptRepository: synchronous paths to root
\* ------------------------------------------------------------------------
\* one pass of the recursive member of path_cte: the rows joined with the
\* edges whose child is the first id of their path_str
PathCteStep(E, R) == UNION {{<<p>> \o r : p \in Parents(E, r[1])} : r \in R}

\* path_cte: the anchor rows and everything the recursive member adds (UNION
\* ALL); path_str is kept as the sequence of its ids
RECURSIVE PathCte(_, _)
PathCte(E, R) == IF R = {} THEN {} ELSE R \cup PathCte(E, PathCteStep(E, R))

Rev(E) == {<<e[2], e[1]>> : e \in E}

\* ConceptRepository.getPathsToRoot: every row of path_cte becomes a path
getPathsToRoot(E, C, conceptId) ==
  LET pathResults == PathCte(E, {<<p>> : p \in Parents(E, conceptId)})
  IN IF pathResults = {} THEN {}
     ELSE IF conceptId \notin C THEN {}
     ELSE {Keep(ids, C) \o <<conceptId>> : ids \in pathResults}

\* GET /api/concepts/:id/paths: findById, the path_cte query, the concepts query
GetPathsToRoot(id) ==
  /\ currentSlaveIndex' = AdvanceSlave(3)
  /\ \E v \in executeRead(2) :
       pathsResult' =
         IF id \notin concepts
           THEN [status |-> "NotFound", conceptId |-> id, paths |-> {}]
         ELSE IF CteDiverges(Rev(v), id)
           THEN [status |-> "error", conceptId |-> id, paths |-> {}]
         ELSE [status |-> "ok", conceptId |-> id,
               paths |-> getPathsToRoot(v, concepts, id)]
  /\ UNCHANGED <<edges, binlog, slaveEdges, slavePos, mutVars, streamVars, conceptVars,
                 docs, session, searchReply, graphVars>>

\* ------------------------------------------------------------------------
\* SearchService: cursor pagination over the search index
\* ------------------------------------------------------------------------
MAX_PAGE_SIZE == 100

\* label.keyword of the documents (three concepts share one label, two the
\* other), and the rank of each id in the order of the keyword field id
Label == [n \in ConceptIds |-> IF n \in {"D", "E"} THEN 2 ELSE 1]
IdRank == [n \in ConceptIds |-> CHOOSE r \in 1..5 : <<"A", "B", "C", "D", "E">>[r] = n]

\* buildSort without sort options and without query: label, then the id
buildSortNoTiebreaker == <<[field |-> "label.keyword", order |-> "asc"]>>

buildSort ==
  <<[field |-> "label.keyword", order |-> "asc"], [field |-> "id", order |-> "asc"]>>

\* only the primary sort field is reversed
reverseSortPrimaryOnly(sort) ==
  [k \in 1..Len(sort) |->
     IF k = 1 THEN [sort[k] EXCEPT !.order = IF @ = "asc" THEN "desc" ELSE "asc"]
     ELSE sort[k]]

reverseSort(sort) ==
  [k \in 1..Len(sort) |-> [sort[k] EXCEPT !.order = IF @ = "asc" THEN "desc" ELSE "asc"]]

\* hit.sort: the sort values of a document
SortValues(sort, n) ==
  [k \in 1..Len(sort) |-> IF sort[k].field = "id" THEN IdRank[n] ELSE Label[n]]

\* a sorts strictly before b under sort
RECURSIVE Before(_, _, _)
Before(sort, a, b) ==
  IF sort = <<>> THEN FALSE
  ELSE IF Head(a) # Head(b)
    THEN IF Head(sort).order = "asc" THEN Head(a) < Head(b) ELSE Head(a) > Head(b)
  ELSE Before(Tail(sort), Tail(a), Tail(b))

\* the documents of S in the order of sort
RECURSIVE SortBy(_, _)
SortBy(S, sort) ==
  IF S = {} THEN <<>>
  ELSE LET m == CHOOSE x \in S :
                  \A y \in S : ~Before(sort, SortValues(sort, y), SortValues(sort, x))
       IN <<m>> \o SortBy(S \ {m}, sort)

\* JSON text in base64url, and a cursor string that does not decode to JSON
encodeCursor(sortValues) ==
  [enc |-> "base64url", json |-> [t |-> "array", v |-> sortValues]]

GarbageCursor == [enc |-> "garbage"]
NoCursor == [enc |-> "undefined"]

\* decodeCursor: whatever JSON.parse returns, or BadRequestException
decodeCursor(cursor) ==
  IF cursor.enc = "base64url" THEN cursor.json ELSE [t |-> "throws"]

\* JSON values that are falsy in `searchAfter && {...}`
Falsy(json) == json.t \in {"null", "false"}

\* the search backend accepts search_after only as one value per sort field
ValidSearchAfter(sort, json) ==
  /\ json.t = "array"
  /\ Len(json.v) = Len(sort)
  /\ \A k \in 1..Len(sort) : json.v[k] \in Int

\* search_after resolved by the document the cursor was taken from: the hits
\* that follow it, or all of them when it is no longer there
SearchAfterById(hits, sort, searchAfter) ==
  LET at == {k \in 1..Len(hits) : SortValues(sort, hits[k]) = searchAfter}
  IN IF at = {} THEN hits ELSE SubSeq(hits, Min(at) + 1, Len(hits))

\* search_after: the hits whose sort values lie strictly after the given ones
SearchAfter(hits, sort, searchAfter) ==
  Keep(hits, {n \in ConceptIds : Before(sort, searchAfter, SortValues(sort, n))})

FirstN(q, n) == SubSeq(q, 1, Min({Len(q), n}))

SearchFailure(status, json) ==
  [status |-> status, concepts |-> <<>>, nextCursor |-> NoCursor,
   prevCursor |-> NoCursor, hasNext |-> FALSE, hasPrev |-> FALSE, sent |-> json]

\* SearchService.search without query text, over the documents D
search(D, size, cursor, direction) ==
  LET pageSize == IF size < 1 THEN 1 ELSE IF size > MAX_PAGE_SIZE THEN MAX_PAGE_SIZE ELSE size
      sort == buildSort
      given == cursor # NoCursor
      json == IF given THEN decodeCursor(cursor) ELSE [t |-> "undefined"]
      effectiveSort == IF direction = "prev" THEN reverseSort(sort) ELSE sort
      sends == given /\ json.t # "throws" /\ ~Falsy(json)
  IN IF json.t = "throws" THEN SearchFailure("BadRequest", [t |-> "undefined"])
     ELSE IF sends /\ ~ValidSearchAfter(effectiveSort, json)
       THEN SearchFailure("error", json)
     ELSE
       LET all == SortBy(D, effectiveSort)
           found == IF sends THEN SearchAfter(all, effectiveSort, json.v) ELSE all
           fetched == FirstN(found, pageSize + 1)
           hasMore == Len(fetched) > pageSize
           page == FirstN(fetched, pageSize)
           hits == IF direction = "prev" THEN Reverse(page) ELSE page
           nextCursor == IF hits = <<>> THEN NoCursor
                         ELSE encodeCursor(SortValues(effectiveSort, hits[Len(hits)]))
           prevCursor == IF hits = <<>> THEN NoCursor
                         ELSE encodeCursor(SortValues(effectiveSort, hits[1]))
       IN [status |-> "ok", concepts |-> hits,
           nextCursor |-> IF hasMore \/ direction = "prev" THEN nextCursor ELSE NoCursor,
           prevCursor |-> IF given THEN prevCursor ELSE NoCursor,
           hasNext |-> IF direction = "next" THEN hasMore ELSE TRUE,
           hasPrev |-> given,
           sent |-> IF sends THEN json ELSE [t |-> "undefined"]]

\* GET /api/concepts/search/fulltext without cursor: a client starts paging
SearchFirst(size) ==
  /\ session.pc # "paging"
  /\ LET reply == search(docs, size, NoCursor, "next")
     IN /\ searchReply' = reply
        /\ session' = [IdleSession EXCEPT !.op = "search",
              !.pc = IF reply.nextCursor = NoCursor THEN "done" ELSE "paging",
              !.pageSize = size, !.pages = <<reply.concepts>>,
              !.cursor = reply.nextCursor, !.prevCursor = reply.prevCursor,
              !.present = docs]
  /\ UNCHANGED <<dbVars, mutVars, streamVars, conceptVars, graphVars, pathsResult, docs>>

\* the client follows nextCursor with direction=next
SearchNext ==
  /\ session.op = "search"
  /\ session.pc = "paging"
  /\ LET reply == search(docs, session.pageSize, session.cursor, "next")
     IN /\ searchReply' = reply
        /\ session' = [session EXCEPT
              !.pc = IF reply.nextCursor = NoCursor THEN "done" ELSE "paging",
              !.pages = Append(@, reply.concepts),
              !.cursor = reply.nextCursor, !.prevCursor = reply.prevCursor]
  /\ UNCHANGED <<dbVars, mutVars, streamVars, conceptVars, graphVars, pathsResult, docs>>

\* the client goes back with direction=prev and one of the two cursors of
\* the reply to its last next request
SearchPrev(which) ==
  /\ session.op = "search"
  /\ session.pc \in {"paging", "done"}
  /\ LET cursor == IF which = "nextCursor" THEN session.cursor ELSE session.prevCursor
     IN /\ cursor # NoCursor
        /\ searchReply' = search(docs, session.pageSize, cursor, "prev")
        /\ session' = [session EXCEPT !.pc = "back", !.backWith = which,
              !.back = search(docs, session.pageSize, cursor, "prev").concepts]
  /\ UNCHANGED <<dbVars, mutVars, streamVars, conceptVars, graphVars, pathsResult, docs>>

\* a client sends a cursor that was not issued by the service
SearchForged(cursor) ==
  /\ session.pc # "paging"
  /\ searchReply' = search(docs, 2, cursor, "next")
  /\ session' = [IdleSession EXCEPT !.op = "forged", !.pc = "done", !.cursor = cursor]
  /\ UNCHANGED <<dbVars, mutVars, streamVars, conceptVars, graphVars, pathsResult, docs>>

\* what a change of the index between two page requests does to a paging client
Disturbed(n) ==
  IF session.pc = "paging"
    THEN [session EXCEPT !.stable = FALSE, !.present = @ \ {n}]
  ELSE IF session.pc = "done" THEN [session EXCEPT !.stable = FALSE]
  ELSE session

\* searchService.deleteConcept
DocDelete(n) ==
  /\ n \in docs
  /\ docs' = docs \ {n}
  /\ session' = Disturbed(n)
  /\ UNCHANGED <<dbVars, mutVars, streamVars, conceptVars, graphVars, pathsResult, searchReply>>

\* searchService.indexConcept of a concept that had no document
DocInsert(n) ==
  /\ n \notin docs
  /\ docs' = docs \cup {n}
  /\ session' = Disturbed(n)
  /\ UNCHANGED <<dbVars, mutVars, streamVars, conceptVars, graphVars, pathsResult, searchReply>>

\* SearchService.searchRelations without query text: no sort, from/size
\* paging, and a reply that carries neither cursors nor hasNext; hits is the
\* order in which the backend returns the equally scored matches
searchRelations(type, nodeId, hits, limit, offset, parentIds) ==
  IF type = "parents" /\ parentIds = {}
    THEN [status |-> "ok", concepts |-> <<>>, nextCursor |-> NoCursor,
          prevCursor |-> NoCursor, hasNext |-> FALSE, hasPrev |-> FALSE,
          sent |-> [t |-> "undefined"]]
    ELSE [status |-> "ok",
          concepts |-> SubSeq(hits, offset + 1, Min({Len(hits), offset + limit})),
          nextCursor |-> NoCursor, prevCursor |-> NoCursor,
          hasNext |-> FALSE, hasPrev |-> FALSE, sent |-> [t |-> "undefined"]]

\* the documents a searchRelations query matches
RelationMatches(type, nodeId, parentIds) ==
  IF type = "children" THEN {d \in docs : nodeId \in index[d]}
  ELSE {d \in docs : d \in parentIds}

\* GET /api/concepts/:id/children: ConceptsService.getChildren hands
\* (q, pageSize, cursor, direction) to (query, limit, offset, parentIds);
\* without cursor the offset is its default 0
ListChildren(nodeId, size) ==
  /\ session.pc # "paging"
  /\ \E hits \in RowOrders(RelationMatches("children", nodeId, {"next"})) :
       LET reply == searchRelations("children", nodeId, hits, size, 0, {"next"})
       IN /\ searchReply' = reply
          /\ session' = [IdleSession EXCEPT !.op = "children", !.pc = "done",
                !.pageSize = size, !.pages = <<reply.concepts>>,
                !.present = Children(edges, nodeId)]
  /\ UNCHANGED <<dbVars, mutVars, streamVars, conceptVars, graphVars, pathsResult, docs>>

\* GET /api/concepts/:id/parents: edgeRepo.getParents, then searchRelations
\* with the same four arguments; the parent ids are a seventh argument that
\* searchRelations does not have, and parentIds receives the direction
ListParents(nodeId, size) ==
  /\ session.pc # "paging"
  /\ currentSlaveIndex' = AdvanceSlave(1)
  /\ \E hits \in RowOrders(RelationMatches("parents", nodeId, {"next"})) :
       LET reply == searchRelations("parents", nodeId, hits, size, 0, {"next"})
       IN /\ searchReply' = reply
          /\ session' = [IdleSession EXCEPT !.op = "parents", !.pc = "done",
                !.pageSize = size, !.pages = <<reply.concepts>>,
                !.present = Parents(edges, nodeId)]
  /\ UNCHANGED <<edges, binlog, slaveEdges, slavePos, mutVars, streamVars, conceptVars,
                 graphVars, pathsResult, docs>>

\* ------------------------------------------------------------------------
\* Specification of the read-side queries
\* ------------------------------------------------------------------------
\* the edge sets the path queries are run on: every subset of these edges
PathEdges == Diamond \cup {<<"B", "C">>}
PathIds == ConceptIds \cup {MissingId}

InitPaths ==
  /\ \E E \in SUBSET PathEdges : InitStore(E)
  /\ InitStreamVars

NextPaths ==
  \/ \E id \in PathIds : GetPathsToRoot(id)

SpecPaths == InitPaths /\ [][NextPaths]_vars

\* ------------------------------------------------------------------------
\* Specification of the paginated listings
\* ------------------------------------------------------------------------
PageSizes == {1, 2, 2 * MAX_PAGE_SIZE}
ForgedCursors ==
  {GarbageCursor,
   [enc |-> "base64url", json |-> [t |-> "null"]],
   [enc |-> "base64url", json |-> [t |-> "object"]],
   [enc |-> "base64url", json |-> [t |-> "array", v |-> <<1>>]]}

\* the documents that are deleted and indexed again while clients page
MutatedDocs == {"B", "D"}
\* the nodes whose children and parents are listed
RelationIds == {"A", "D"}

InitRead ==
  /\ InitStore(Diamond)
  /\ InitStreamVars

NextRead ==
  \/ \E size \in PageSizes : SearchFirst(size)
  \/ SearchNext
  \/ \E which \in {"nextCursor", "prevCursor"} : SearchPrev(which)
  \/ \E cursor \in ForgedCursors : SearchForged(cursor)
  \/ \E n \in MutatedDocs : DocDelete(n)
  \/ \E n \in MutatedDocs : DocInsert(n)
  \/ \E n \in RelationIds, size \in PageSizes : ListChildren(n, size)
  \/ \E n \in RelationIds, size \in PageSizes : ListParents(n, size)

SpecRead == InitRead /\ [][NextRead]_vars

\* ------------------------------------------------------------------------
\* Specification of the paths-to-root stream, with concepts being deleted
\* ------------------------------------------------------------------------
RemovedConcepts == {"D"}

\* the caches are empty, or hold what earlier streams for D left
InitConcept ==
  /\ InitStore(Diamond)
  /\ concepts = ConceptIds
  /\ conceptCache \in {{}, ConceptIds}
  /\ InitReadVars
  /\ cache \in {ColdCache} \cup WarmCaches(Diamond)
  /\ stream = IdleStream
  /\ items = <<>>
  /\ events = <<>>
  /\ stopped = FALSE
  /\ subscribed = FALSE
  /\ streamsStarted = 0

NextConcept ==
  \/ \E n \in RemovedConcepts :
       streamPathsToRoot(n, DEFAULT_MAX_DEPTH, DEFAULT_MAX_PATHS, DEFAULT_CONCURRENCY)
  \/ StreamStart
  \/ BatchStart
  \/ \E i \in ItemSlots : ItemCacheGet(i)
  \/ \E i \in ItemSlots : ItemDbRead(i)
  \/ \E i \in ItemSlots : ItemCacheSet(i)
  \/ \E i \in ItemSlots : ItemResolve(i)
  \/ BatchEnd
  \/ StreamDone
  \/ \E n \in RemovedConcepts : ConceptRemove(n)
  \/ \E s \in Slaves : Replicate(s)

SpecConcept == InitConcept /\ [][NextConcept]_vars

\* ------------------------------------------------------------------------
\* Properties of the mutation service (specification Spec)
\* ------------------------------------------------------------------------

\* C1: starting from an acyclic edge set, after any sequence of edge-create
\* calls the persisted edge set contains no directed cycle.
C1_EdgeSetAcyclic == Acyclic(edges)

\* C2: when two edge-create requests run concurrently, each edge alone being
\* admissible and both together forming a cycle (A->B and B->A), and each
\* cycle check sees the durable state of its moment, at most one of the two
\* edges is persisted.
C2_AtMostOneOfOpposingEdges ==
  ~ \E c1 \in Callers, c2 \in Callers :
      /\ c1 # c2
      /\ call[c1].op = "create" /\ call[c2].op = "create"
      /\ call[c1].parentId = call[c2].childId
      /\ call[c1].childId = call[c2].parentId
      /\ call[c1].parentId # call[c1].childId
      /\ call[c1].sawMaster /\ call[c2].sawMaster
      /\ call[c1].storeOk /\ call[c2].storeOk

\* C3: the reachability check of an edge-create call sees every edge whose
\* creation completed before the check started.
C3_CheckSeesDurableState ==
  \A c \in Callers :
    call[c].checked => call[c].sawCompleted

\* C4: an edge-create call that is rejected (missing parent, missing child or
\* cycle) has written nothing: the step that rejects it leaves the edge set
\* and the search index as they are, and the call has made no write before.
C4_RejectedCreateWritesNothing ==
  [][\A c \in Callers :
       (/\ call[c].pc # "done"
        /\ call'[c].pc = "done"
        /\ call'[c].op = "create"
        /\ call'[c].result \in {"NotFound", "BadRequest"})
       => (edges' = edges /\ index' = index /\ ~call'[c].wrote)]_vars

\* a create has been rejected as a cycle while the edge it would close exists
C4_Witness ==
  \E c \in Callers :
    /\ call[c].pc = "done"
    /\ call[c].op = "create"
    /\ call[c].result = "BadRequest"
    /\ <<call[c].childId, call[c].parentId>> \in edges

\* C9: once every edge create and delete has completed, the parent_ids of each
\* concept's search document equal its direct parents in the store.
C9_IndexMatchesStore ==
  (\A c \in Callers : call[c].pc \in {"idle", "done"})
    => \A n \in ConceptIds : index[n] = Parents(edges, n)

\* C10: when the store write of an edge create or delete succeeded and the
\* search-index write that follows failed, the call reports success.
C10_IndexFailureNotReported ==
  \A c \in Callers :
    (call[c].pc = "done" /\ call[c].storeOk /\ call[c].indexFailed)
      => call[c].result = "ok"

\* ------------------------------------------------------------------------
\* Properties of the paths-to-root stream (specification SpecStream)
\* ------------------------------------------------------------------------
PathEvents == {k \in 1..Len(events) : events[k].type = "path"}

Terminal(ev) == ev.type \in {"done", "error"}

\* C5: the number of path events of a stream never exceeds maxPaths.
C5_PathEventsWithinMaxPaths == Cardinality(PathEvents) <= stream.maxPaths

\* C6: a stream delivers exactly one terminal event (done or error) and the
\* consumer receives nothing after it, also when one callback of a batch
\* fails while others of the same batch are still running.
C6_OneTerminalEventLast ==
  /\ \A k \in 1..Len(events) : Terminal(events[k]) => k = Len(events)
  /\ (subscribed /\ stream.pc \in {"done", "failed"})
       => /\ Len(events) > 0
          /\ Terminal(events[Len(events)])
          /\ (events[Len(events)].type = "done") = (stream.pc = "done")

\* a callback failed, the error event went out, and a callback of the same
\* batch that was still running has sent its path chunk afterwards
C6_Witness ==
  /\ stream.pc = "failed"
  /\ subscribed
  /\ stream.dropped
  /\ \E i \in 1..Len(items) : items[i].st = "failed"

\* C7: after the consumer has unsubscribed, the stream starts no further node
\* visit (the visits in progress may finish).
C7_NoVisitAfterUnsubscribe ==
  [][(~subscribed /\ ~subscribed' /\ stream.pc # "idle")
       => stream'.nodesProcessed = stream.nodesProcessed]_vars

\* C8: a stream that starts after the edge parent->child was deleted emits no
\* path that goes from parent to child, even when the parents of child were
\* cached before the deletion.
C8_NoDeletedEdgeInPaths ==
  \A k \in PathEvents :
    \A j \in 1..(Len(events[k].path) - 1) :
      <<events[k].path[j], events[k].path[j + 1]>> \in stream.edgesAtStart

\* C11: a failing parents-cache lookup is treated as a cache miss: a callback
\* that is waiting for cache.getParents goes on (to the store, or with the
\* cached parents) and never rejects, and the stream does not fail at that
\* step.
C11_CacheFailureIsMiss ==
  [][\A i \in 1..Len(items) :
       (items[i].st = "cacheGet" /\ i <= Len(items'))
         => (items'[i].st # "failed" /\ (stream.pc = "batch" => stream'.pc # "failed"))]_vars

\* a chunk that says the enumeration is incomplete; PathChunk has the fields
\* type, path, progress and error only
TruncationSignalled(ev) ==
  \/ ev.type \notin {"path", "progress", "done", "error"}
  \/ ("truncated" \in DOMAIN ev /\ ev["truncated"] = TRUE)

\* the node a delivered path starts at still has parents: cut at maxDepth
CutAtMaxDepth ==
  \E k \in PathEvents :
    /\ Len(events[k].path) = stream.maxDepth + 1
    /\ Parents(stream.edgesAtStart, events[k].path[1]) # {}

\* C12: when the enumeration ends with stack entries left unvisited because
\* maxPaths was reached, or after a path was cut at maxDepth, the events
\* delivered to the caller carry an explicit truncated indication.
C12_TruncationIsSignalled ==
  [][(/\ stream.pc = "loop" /\ stream'.pc = "done" /\ subscribed
      /\ (Len(stream.queue) > 0 \/ CutAtMaxDepth))
       => \E k \in 1..Len(events') : TruncationSignalled(events'[k])]_vars

\* the parent-chains of n in E, each ordered root -> ... -> n (E acyclic)
RECURSIVE ChainsToRoot(_, _)
ChainsToRoot(E, n) ==
  IF Parents(E, n) = {} THEN {<<n>>}
  ELSE UNION {{Append(c, n) : c \in ChainsToRoot(E, p)} : p \in Parents(E, n)}

\* a stream has ended with done, was listened to until the end, ran with
\* limits that do not bind, and no edge was changed meanwhile
UnboundStreamDone ==
  /\ stream.pc = "done"
  /\ subscribed
  /\ callsStarted = 0
  /\ stream.maxDepth = DEFAULT_MAX_DEPTH
  /\ stream.maxPaths = DEFAULT_MAX_PATHS

C14_SyncPathsAreTheChains ==
  pathsResult.status = "ok" =>
    pathsResult.paths = ChainsToRoot(edges, pathsResult.conceptId)

\* ------------------------------------------------------------------------
\* Properties of the stream under concept deletion (specification SpecConcept)
\* ------------------------------------------------------------------------

\* C15: a stream for an id that has no row in the store when the stream is
\* requested, whatever calls came before, yields only the NotFound error
\* event: no path or progress event, and no node is visited (no parent lookup).
C15_MissingNodeOnlyNotFound ==
  (stream.pc # "idle" /\ stream.conceptId \notin stream.conceptsAtStart) =>
    /\ stream.pc \in {"start", "failed"}
    /\ stream.nodesProcessed = 0
    /\ \A k \in 1..Len(events) : events[k].type = "error"

\* ------------------------------------------------------------------------
\* Properties of the paginated listings (specification SpecRead)
\* ------------------------------------------------------------------------
\* the items a paging client has received, in the order of arrival
Returned == Flatten(session.pages)

TimesReturned(n) == Cardinality({k \in 1..Len(Returned) : Returned[k] = n})

\* C16: paging forward through a stable result set with page size k, following
\* nextCursor until none is returned, returns every item of the result set
\* exactly once, also when several items share the primary sort value.
C16_ForwardPagingReturnsAllOnce ==
  (session.op = "search" /\ session.pc = "done" /\ session.stable) =>
    /\ {Returned[k] : k \in 1..Len(Returned)} = session.present
    /\ Len(Returned) = Cardinality(session.present)

C16_Witness ==
  /\ session.op = "search" /\ session.pc = "done" /\ session.stable
  /\ session.pageSize = 1
  /\ Len(session.pages) = 5
  /\ Cardinality({n \in session.present : Label[n] = 1}) = 3

\* C17 as stated: direction=prev with a cursor obtained from a next request
\* (either cursor of its reply) returns exactly the items of the immediately
\* preceding page, in their original order.
C17_PrevReturnsPrecedingPage ==
  (session.pc = "back" /\ session.stable /\ Len(session.pages) >= 2) =>
    session.back = session.pages[Len(session.pages) - 1]

\* C17 amended: direction=prev with the prevCursor of the reply to a next
\* request returns exactly the items of the immediately preceding page, in
\* their original order.
C17_PrevCursorReturnsPrecedingPage ==
  (/\ session.pc = "back" /\ session.stable /\ Len(session.pages) >= 2
   /\ session.backWith = "prevCursor") =>
    session.back = session.pages[Len(session.pages) - 1]

C17_Witness ==
  /\ session.pc = "back" /\ session.stable /\ session.backWith = "prevCursor"
  /\ session.pageSize = 2
  /\ Len(session.pages) = 2
  /\ session.back = <<"A", "B">>

\* C18: whatever documents are inserted or deleted between the page requests,
\* every item that is present for the whole forward pagination is returned
\* exactly once.
C18_PresentItemsReturnedOnce ==
  (session.op = "search" /\ session.pc = "done") =>
    \A n \in session.present : TimesReturned(n) = 1

C18_Witness ==
  /\ session.op = "search" /\ session.pc = "done" /\ ~session.stable
  /\ Len(session.pages) >= 3
  /\ session.present # {} /\ session.present # docs
  /\ \E n \in ConceptIds : n \notin session.present /\ TimesReturned(n) >= 1

\* C19: following the returned nextCursor from the first page of a node's
\* children (or parents) until none is returned visits every direct child (or
\* parent) of the node exactly once.
C19_RelationPagingVisitsAllOnce ==
  (session.op \in {"children", "parents"} /\ session.pc = "done") =>
    /\ {Returned[k] : k \in 1..Len(Returned)} = session.present
    /\ Len(Returned) = Cardinality(session.present)

\* C20: a cursor that does not decode, or decodes to something that is not a
\* sort-key tuple of the query's sort, is rejected with BadRequest ("Invalid
\* pagination cursor") and nothing of it reaches the search backend.
C20_ForgedCursorRejected ==
  session.op = "forged" =>
    (searchReply.status = "BadRequest" /\ searchReply.sent.t = "undefined")

\* C21: deleting an edge fails with NotFound if and only if no edge
\* (parentId, childId) existed when the delete statement ran.  (wrote records,
\* from the delete statement on, whether the row was there.)
C21_RemoveNotFoundIffAbsent ==
  [][\A c \in Callers :
       (call[c].op = "remove" /\ call[c].pc # "done" /\ call'[c].pc = "done")
         => ((call'[c].result = "NotFound") <=> ~call[c].wrote)]_vars

\* ------------------------------------------------------------------------
\* ConceptRepository: ancestors and descendants (recursive CTEs)
\* ------------------------------------------------------------------------
RECURSIVE Sum(_, _)
Sum(f, S) ==
  IF S = {} THEN 0
  ELSE LET x == CHOOSE y \in S : TRUE IN f[x] + Sum(f, S \ {x})

\* A CTE built with UNION ALL is a multiset of (parent_id, child_id) rows:
\* rows[e] is the number of copies of the row e.
\* recursive member of `ancestors`: edges e joined with the rows a of the
\* previous pass on e.child_id = a.parent_id
AncestorsStep(E, rows) == [e \in E |-> Sum(rows, {a \in E : e[2] = a[1]})]

RECURSIVE AncestorsCte(_, _)
AncestorsCte(E, rows) ==
  IF \A e \in E : rows[e] = 0 THEN rows
  ELSE LET rest == AncestorsCte(E, AncestorsStep(E, rows))
       IN [e \in E |-> rows[e] + rest[e]]

\* recursive member of `descendants`: e.parent_id = d.child_id
DescendantsStep(E, rows) == [e \in E |-> Sum(rows, {d \in E : e[1] = d[2]})]

RECURSIVE DescendantsCte(_, _)
DescendantsCte(E, rows) ==
  IF \A e \in E : rows[e] = 0 THEN rows
  ELSE LET rest == DescendantsCte(E, DescendantsStep(E, rows))
       IN [e \in E |-> rows[e] + rest[e]]

\* SELECT DISTINCT c.*: one row per concept that occurs in the join
Distinct(joined) == [c \in DOMAIN joined |-> IF joined[c] > 0 THEN 1 ELSE 0]

\* the join with concepts selected without DISTINCT
getAncestorsAll(E, C, conceptId) ==
  LET a == AncestorsCte(E, [e \in E |-> IF e[2] = conceptId THEN 1 ELSE 0])
  IN [c \in C |-> Sum(a, {e \in E : e[1] = c})]

\* ConceptRepository.getAncestors: how often each concept is in the result
getAncestors(E, C, conceptId) ==
  LET a == AncestorsCte(E, [e \in E |-> IF e[2] = conceptId THEN 1 ELSE 0])
  IN Distinct([c \in C |-> Sum(a, {e \in E : e[1] = c})])

\* ConceptRepository.getDescendants
getDescendants(E, C, conceptId) ==
  LET d == DescendantsCte(E, [e \in E |-> IF e[1] = conceptId THEN 1 ELSE 0])
  IN Distinct([c \in C |-> Sum(d, {e \in E : e[2] = c})])

\* ConceptsService.getAncestors: findById, then the CTE query
GetAncestors(id) ==
  /\ currentSlaveIndex' = AdvanceSlave(2)
  /\ \E v \in executeRead(2) :
       closureResult' =
         IF id \notin concepts
           THEN [status |-> "NotFound", op |-> "ancestors", conceptId |-> id]
         ELSE IF CteDiverges(Rev(v), id)
           THEN [status |-> "error", op |-> "ancestors", conceptId |-> id]
         ELSE [status |-> "ok", op |-> "ancestors", conceptId |-> id,
               nodes |-> getAncestors(v, concepts, id)]
  /\ UNCHANGED <<edges, binlog, slaveEdges, slavePos, mutVars, streamVars, conceptVars,
                 pathsResult, docs, session, searchReply, graphReply>>

\* ConceptsService.getDescendants
GetDescendants(id) ==
  /\ currentSlaveIndex' = AdvanceSlave(2)
  /\ \E v \in executeRead(2) :
       closureResult' =
         IF id \notin concepts
           THEN [status |-> "NotFound", op |-> "descendants", conceptId |-> id]
         ELSE IF CteDiverges(v, id)
           THEN [status |-> "error", op |-> "descendants", conceptId |-> id]
         ELSE [status |-> "ok", op |-> "descendants", conceptId |-> id,
               nodes |-> getDescendants(v, concepts, id)]
  /\ UNCHANGED <<edges, binlog, slaveEdges, slavePos, mutVars, streamVars, conceptVars,
                 pathsResult, docs, session, searchReply, graphReply>>

\* the edge sets the closure queries are run on: every subset of the path
\* edges and of one edge that closes a cycle
ClosureEdges == PathEdges \cup {<<"D", "A">>}

InitClosure ==
  /\ \E E \in SUBSET ClosureEdges : InitStore(E)
  /\ InitStreamVars

NextClosure ==
  \/ \E id \in PathIds : GetAncestors(id)
  \/ \E id \in PathIds : GetDescendants(id)

SpecClosure == InitClosure /\ [][NextClosure]_vars

\* C22: ancestors and descendants return exactly the transitive closure of n
\* along child->parent, respectively parent->child, edges, and every node of
\* it exactly once however many paths lead to it.
C22_ClosureEachNodeOnce ==
  closureResult.status = "ok" =>
    LET n == closureResult.conceptId
        closure == IF closureResult.op = "ancestors"
                     THEN Reach(Rev(edges), n) ELSE Reach(edges, n)
    IN \A c \in concepts :
         closureResult.nodes[c] = IF c \in closure THEN 1 ELSE 0

\* the diamond with the edge B -> C: three paths lead from A to D
C22_Witness ==
  /\ edges = PathEdges
  /\ closureResult.status = "ok"
  /\ closureResult.op = "ancestors" /\ closureResult.conceptId = "D"
  /\ {c \in concepts : closureResult.nodes[c] = 1} = {"A", "B", "C"}

\* ------------------------------------------------------------------------
\* GraphService: shortest path
\* ------------------------------------------------------------------------
\* getChildren and getParents have no ORDER BY: the rows of a set of concepts
\* come in the order ord the store happens to use
Rows(S, ord) == Keep(ord, S)

\* the neighbors of bfsShortestPath: children first, then parents
Neighbors(E, id, direction, ord) ==
  (IF direction \in {"any", "downward"} THEN Rows(Children(E, id), ord) ELSE <<>>)
    \o (IF direction \in {"any", "upward"} THEN Rows(Parents(E, id), ord) ELSE <<>>)

\* queue.pop(): the entry pushed last is taken
DequeueLast(queue) ==
  [current |-> queue[Len(queue)], rest |-> SubSeq(queue, 1, Len(queue) - 1)]

\* queue.shift()
Dequeue(queue) == [current |-> Head(queue), rest |-> Tail(queue)]

\* current.depth > maxLength
DepthExhaustedLate(depth, maxLength) == depth > maxLength

\* if (current.depth >= maxLength) continue
DepthExhausted(depth, maxLength) == depth >= maxLength

\* the for loop over the neighbors of current; visited maps a node to the
\* node it was discovered from ("null" for the source)
RECURSIVE VisitNeighbors(_, _, _, _)
VisitNeighbors(st, current, neighbors, to) ==
  IF neighbors = <<>> THEN st
  ELSE LET n == Head(neighbors)
       IN IF st.visited[n] # "unvisited"
            THEN VisitNeighbors(st, current, Tail(neighbors), to)
          ELSE LET seen == [st EXCEPT !.visited[n] = current.id]
               IN IF n = to THEN [seen EXCEPT !.found = TRUE]
                  ELSE VisitNeighbors(
                         [seen EXCEPT !.queue =
                            Append(@, [id |-> n, depth |-> current.depth + 1])],
                         current, Tail(neighbors), to)

\* the while loop of bfsShortestPath
RECURSIVE BfsLoop(_, _, _, _, _, _)
BfsLoop(E, st, to, direction, maxLength, ord) ==
  IF st.found \/ st.queue = <<>> THEN st
  ELSE LET d == Dequeue(st.queue)
           taken == [st EXCEPT !.queue = d.rest]
       IN IF DepthExhausted(d.current.depth, maxLength)
            THEN BfsLoop(E, taken, to, direction, maxLength, ord)
          ELSE BfsLoop(E, VisitNeighbors(taken, d.current,
                                         Neighbors(E, d.current.id, direction, ord), to),
                       to, direction, maxLength, ord)

\* GraphService.reconstructPath: walk visited back from the target; the
\* direction of each edge is looked up in the edges table
RECURSIVE reconstructPath(_, _, _)
reconstructPath(E, current, visited) ==
  LET parent == visited[current]
  IN IF parent = "null" THEN [path |-> <<current>>, edges |-> <<>>]
     ELSE LET before == reconstructPath(E, parent, visited)
              edge == IF <<parent, current>> \in E
                        THEN [source |-> parent, target |-> current]
                        ELSE [source |-> current, target |-> parent]
          IN [path |-> Append(before.path, current),
              edges |-> Append(before.edges, edge)]

\* the null that bfsShortestPath returns when the queue runs empty
NoPath == [path |-> <<>>, edges |-> <<>>]

\* GraphService.bfsShortestPath
bfsShortestPath(E, C, from, to, direction, maxLength, ord) ==
  LET start == [visited |-> [n \in C |-> IF n = from THEN "null" ELSE "unvisited"],
                queue |-> <<[id |-> from, depth |-> 0]>>,
                found |-> FALSE]
      st == BfsLoop(E, start, to, direction, maxLength, ord)
  IN IF st.found THEN reconstructPath(E, to, st.visited) ELSE NoPath

\* findShortestPath without the branch for from === to
findShortestPathNoSameNode(E, C, from, to, direction, maxLength, ord) ==
  LET req == [op |-> "shortestPath", from |-> from, to |-> to,
              direction |-> direction, maxLength |-> maxLength]
      reply(status, found, path, es, len) ==
        [status |-> status, found |-> found, path |-> path, edges |-> es,
         length |-> len, req |-> req]
  IN IF from \notin C \/ to \notin C
       THEN reply("NotFound", FALSE, Null, Null, 0)
     ELSE LET pathResult == bfsShortestPath(E, C, from, to, direction, maxLength, ord)
          IN IF pathResult = NoPath THEN reply("ok", FALSE, Null, Null, 0)
             ELSE reply("ok", TRUE, Keep(pathResult.path, C), pathResult.edges,
                        Len(pathResult.edges))

\* GraphService.findShortestPath
findShortestPath(E, C, from, to, direction, maxLength, ord) ==
  LET req == [op |-> "shortestPath", from |-> from, to |-> to,
              direction |-> direction, maxLength |-> maxLength]
      reply(status, found, path, es, len) ==
        [status |-> status, found |-> found, path |-> path, edges |-> es,
         length |-> len, req |-> req]
  IN IF from \notin C \/ to \notin C
       THEN reply("NotFound", FALSE, Null, Null, 0)
     ELSE IF from = to THEN reply("ok", TRUE, <<from>>, <<>>, 0)
     ELSE LET pathResult == bfsShortestPath(E, C, from, to, direction, maxLength, ord)
          IN IF pathResult = NoPath THEN reply("ok", FALSE, Null, Null, 0)
             ELSE reply("ok", TRUE, Keep(pathResult.path, C), pathResult.edges,
                        Len(pathResult.edges))

\* the replica the next read goes to, after a request whose number of reads
\* depends on the traversal
AnySlave == IF NumSlaves = 0 THEN {currentSlaveIndex} ELSE 0..(NumSlaves - 1)

\* GET /api/graph/shortest-path
FindShortestPath(from, to, direction, maxLength, ord) ==
  /\ currentSlaveIndex' \in AnySlave
  /\ \E v \in executeRead(1) :
       graphReply' = findShortestPath(v, concepts, from, to, direction, maxLength, ord)
  /\ UNCHANGED <<edges, binlog, slaveEdges, slavePos, mutVars, streamVars, conceptVars,
                 pathsResult, docs, session, searchReply, closureResult>>

\* the edge sets the path search runs on: A -> B -> C with any of the edges
\* C -> D (the chain), A -> D (the shortcut) and A -> E -> D (the detour)
ShortestEdges ==
  {<<"A", "B">>, <<"B", "C">>, <<"C", "D">>, <<"A", "D">>, <<"A", "E">>, <<"E", "D">>}
ShortestGraphs ==
  {E \in SUBSET ShortestEdges : {<<"A", "B">>, <<"B", "C">>} \subseteq E}
\* the ids the path requests name
ShortestIds == {"A", "C", "D", MissingId}
PathDirections == {"any", "upward", "downward"}
MaxLengths == {1, 2, 3}
RowOrderings == {<<"A", "B", "C", "D", "E">>, <<"E", "D", "C", "B", "A">>}

InitShortest ==
  /\ \E E \in ShortestGraphs : InitStore(E)
  /\ InitStreamVars

NextShortest ==
  \/ \E from \in ShortestIds, to \in ShortestIds, direction \in PathDirections,
        maxLength \in MaxLengths, ord \in RowOrderings :
       FindShortestPath(from, to, direction, maxLength, ord)

SpecShortest == InitShortest /\ [][NextShortest]_vars

\* one hop along the edges the direction allows
Hop(E, direction, S) ==
  S \cup (IF direction \in {"any", "downward"}
            THEN UNION {Children(E, n) : n \in S} ELSE {})
    \cup (IF direction \in {"any", "upward"}
            THEN UNION {Parents(E, n) : n \in S} ELSE {})

\* the nodes at most k hops away from `from`
RECURSIVE Within(_, _, _, _)
Within(E, direction, from, k) ==
  IF k = 0 THEN {from} ELSE Hop(E, direction, Within(E, direction, from, k - 1))

PathFound ==
  /\ graphReply.status = "ok"
  /\ graphReply.req.op = "shortestPath"
  /\ graphReply.req.from # graphReply.req.to
  /\ graphReply.found

\* C23: when a path is reported, its length is the minimum number of hops
\* over all paths from `from` to `to` along the edges the direction allows
\* (and the reported path is such a path).
C23_ShortestPathIsMinimal ==
  PathFound =>
    LET r == graphReply.req
        len == graphReply.length
    IN /\ len >= 1
       /\ r.to \in Within(edges, r.direction, r.from, len)
       /\ r.to \notin Within(edges, r.direction, r.from, len - 1)
       /\ Len(graphReply.path) = len + 1
       /\ graphReply.path[1] = r.from /\ graphReply.path[len + 1] = r.to
       /\ \A k \in 1..len :
            graphReply.path[k + 1] \in Hop(edges, r.direction, {graphReply.path[k]})

\* the chain A -> B -> C -> D with the shortcut A -> D: length 1
C23_Witness ==
  /\ edges = {<<"A", "B">>, <<"B", "C">>, <<"C", "D">>, <<"A", "D">>}
  /\ PathFound
  /\ graphReply.req.from = "A" /\ graphReply.req.to = "D"
  /\ graphReply.req.direction = "downward"
  /\ graphReply.length = 1

PathAnswered ==
  /\ graphReply.status = "ok"
  /\ graphReply.req.op = "shortestPath"
  /\ graphReply.req.from # graphReply.req.to

\* C24: for existing nodes from # to, not-found is reported exactly when no
\* path of at most maxHops hops along the edges the direction allows leads
\* from `from` to `to`; a path of exactly maxHops hops is still found.
C24_NotFoundIffBeyondMaxHops ==
  PathAnswered =>
    LET r == graphReply.req
    IN graphReply.found <=> r.to \in Within(edges, r.direction, r.from, r.maxLength)

\* the chain A -> B -> C -> D alone: the path of 3 hops is found with maxHops 3
C24_Witness ==
  /\ edges = {<<"A", "B">>, <<"B", "C">>, <<"C", "D">>}
  /\ PathAnswered
  /\ graphReply.req.from = "A" /\ graphReply.req.to = "D"
  /\ graphReply.req.direction = "downward" /\ graphReply.req.maxLength = 3
  /\ graphReply.found /\ graphReply.length = 3

SameNodeAsked ==
  /\ graphReply.status # "none"
  /\ graphReply.req.op = "shortestPath"
  /\ graphReply.req.from = graphReply.req.to

ZeroLengthPath ==
  /\ graphReply.status = "ok"
  /\ graphReply.found
  /\ graphReply.path = <<graphReply.req.from>>
  /\ graphReply.edges = <<>>
  /\ graphReply.length = 0

\* C25 as stated: ShortestPath(X, X, any) returns found with a zero-length
\* path whose only node is X and with no edges, never NotFound or not-found,
\* whatever X is.
C25_SameNodeZeroLength ==
  (SameNodeAsked /\ graphReply.req.direction = "any") => ZeroLengthPath

\* C25 amended: for an id X that has a concept row, ShortestPath(X, X, any)
\* returns found with a zero-length path whose only node is X and no edges.
C25_ExistingSameNodeZeroLength ==
  (SameNodeAsked /\ graphReply.req.direction = "any"
     /\ graphReply.req.from \in concepts) => ZeroLengthPath

C25_Witness ==
  /\ SameNodeAsked /\ graphReply.req.direction = "any"
  /\ graphReply.req.from = "D" /\ Parents(edges, "D") # {}
  /\ ZeroLengthPath

\* ------------------------------------------------------------------------
\* GraphService: subgraph
\* ------------------------------------------------------------------------
\* all (parent, child) pairs, in the order the store returns rows
RECURSIVE PairsFrom(_, _)
PairsFrom(ps, ord) ==
  IF ps = <<>> THEN <<>>
  ELSE [k \in 1..Len(ord) |-> <<Head(ps), ord[k]>>] \o PairsFrom(Tail(ps), ord)

\* EdgeRepository.getChildrenOfConcepts: one row {parentId, child} per edge
\* whose parent is in layerIds
getChildrenOfConcepts(E, layerIds, ord) ==
  Keep(PairsFrom(ord, ord), {e \in E : InSeq(e[1], layerIds)})

\* EdgeRepository.getParentsOfConcepts: one row {childId, parent} per edge
\* whose child is in layerIds
getParentsOfConcepts(E, layerIds, ord) ==
  Keep(PairsFrom(ord, ord), {e \in E : InSeq(e[2], layerIds)})

\* the batch loops never stop early
BatchStopsNever(nodes, maxNodes) == FALSE

\* if (result.nodes.size >= maxNodes) break
BatchStops(nodes, maxNodes) == Cardinality(nodes) >= maxNodes

\* one of the two for loops of bfsTraverse over the rows of a batch; the
\* node a row brings is its child (side 2) or its parent (side 1)
RECURSIVE ProcessBatch(_, _, _, _)
ProcessBatch(st, rows, side, maxNodes) ==
  IF rows = <<>> \/ BatchStops(st.nodes, maxNodes) THEN st
  ELSE LET row == Head(rows)
           n == row[side]
           withEdge == [st EXCEPT !.edges = @ \cup {row}]
       IN ProcessBatch(
            IF n \in st.visited THEN withEdge
            ELSE [withEdge EXCEPT !.visited = @ \cup {n}, !.nodes = @ \cup {n},
                                  !.nextLayer = Append(@, n)],
            Tail(rows), side, maxNodes)

\* the while loop of bfsTraverse
RECURSIVE TraverseLoop(_, _, _, _, _, _)
TraverseLoop(E, st, maxDepth, direction, maxNodes, ord) ==
  IF ~(Len(st.currentLayer) > 0 /\ st.currentDepth < maxDepth
         /\ Cardinality(st.nodes) < maxNodes)
    THEN st
  ELSE LET childrenBatch == IF direction \in {"down", "both"}
                              THEN getChildrenOfConcepts(E, st.currentLayer, ord)
                              ELSE <<>>
           parentsBatch == IF direction \in {"up", "both"}
                             THEN getParentsOfConcepts(E, st.currentLayer, ord)
                             ELSE <<>>
           down == ProcessBatch([st EXCEPT !.nextLayer = <<>>], childrenBatch, 2, maxNodes)
           up == ProcessBatch(down, parentsBatch, 1, maxNodes)
       IN TraverseLoop(E, [up EXCEPT !.currentLayer = up.nextLayer,
                                     !.currentDepth = @ + 1],
                       maxDepth, direction, maxNodes, ord)

\* GraphService.bfsTraverse
bfsTraverse(E, startId, maxDepth, direction, maxNodes, ord) ==
  TraverseLoop(E, [currentLayer |-> <<startId>>, currentDepth |-> 0,
                   visited |-> {startId}, nodes |-> {startId}, edges |-> {},
                   nextLayer |-> <<>>],
               maxDepth, direction, maxNodes, ord)

\* GraphService.getSubgraph
getSubgraph(E, C, nodeId, depth, direction, maxNodes, ord) ==
  LET req == [op |-> "subgraph", nodeId |-> nodeId, depth |-> depth,
              direction |-> direction, maxNodes |-> maxNodes]
  IN IF nodeId \notin C THEN [status |-> "NotFound", req |-> req]
     ELSE LET result == bfsTraverse(E, nodeId, depth, direction, maxNodes, ord)
              truncated == Cardinality(result.nodes) >= maxNodes
          IN [status |-> "ok", req |-> req,
              nodes |-> result.nodes, edges |-> result.edges,
              totalNodes |-> Cardinality(result.nodes),
              totalEdges |-> Cardinality(result.edges),
              truncated |-> truncated,
              truncatedNodes |-> IF truncated THEN maxNodes ELSE 0]

\* GET /api/graph/subgraph/:nodeId
GetSubgraph(nodeId, depth, direction, maxNodes, ord) ==
  /\ currentSlaveIndex' \in AnySlave
  /\ \E v \in executeRead(1) :
       graphReply' = getSubgraph(v, concepts, nodeId, depth, direction, maxNodes, ord)
  /\ UNCHANGED <<edges, binlog, slaveEdges, slavePos, mutVars, streamVars, conceptVars,
                 pathsResult, docs, session, searchReply, closureResult>>

SubgraphIds == {"A", "D", MissingId}
SubgraphDepths == {1, 2}
SubgraphDirections == {"up", "down", "both"}
MaxNodess == {1, 2, 5}

InitSubgraph ==
  /\ \E E \in SUBSET PathEdges : InitStore(E)
  /\ InitStreamVars

NextSubgraph ==
  \/ \E nodeId \in SubgraphIds, depth \in SubgraphDepths,
        direction \in SubgraphDirections, maxNodes \in MaxNodess,
        ord \in RowOrderings :
       GetSubgraph(nodeId, depth, direction, maxNodes, ord)

SpecSubgraph == InitSubgraph /\ [][NextSubgraph]_vars

SubgraphReturned ==
  /\ graphReply.status = "ok"
  /\ graphReply.req.op = "subgraph"

\* the nodes within depth of the center along the direction
WithinDepth ==
  Within(edges,
         CASE graphReply.req.direction = "up" -> "upward"
           [] graphReply.req.direction = "down" -> "downward"
           [] OTHER -> "any",
         graphReply.req.nodeId, graphReply.req.depth)

\* C26: a subgraph result reports truncated = true exactly when maxNodes caused
\* at least one node within depth of the center to be left out, and
\* truncatedNodes is then the number of nodes cut off (0 when nothing was).
C26_TruncatedCountsCutOff ==
  SubgraphReturned =>
    LET cutOff == WithinDepth \ graphReply.nodes
    IN /\ graphReply.truncated <=> (cutOff # {})
       /\ graphReply.truncatedNodes = Cardinality(cutOff)

\* C27: a subgraph result never contains more than maxNodes nodes.
C27_AtMostMaxNodes ==
  SubgraphReturned =>
    /\ Cardinality(graphReply.nodes) <= graphReply.req.maxNodes
    /\ graphReply.totalNodes = Cardinality(graphReply.nodes)

\* the cap binds in the middle of a layer: A has the children B and C
C27_Witness ==
  /\ SubgraphReturned
  /\ graphReply.req.nodeId = "A" /\ graphReply.req.direction = "down"
  /\ graphReply.req.maxNodes = 2
  /\ Cardinality(graphReply.nodes) = 2
  /\ Cardinality(WithinDepth) > 2

SearchPageReturned ==
  /\ session.op = "search"
  /\ searchReply.status = "ok"
  /\ searchReply.concepts # <<>>

\* C28: in every search page, for both directions, hasNext is true exactly
\* when at least one result lies after the returned page and hasPrev is true
\* exactly when at least one result lies before it.
C28_HasNextHasPrevExact ==
  SearchPageReturned =>
    LET page == searchReply.concepts
        first == SortValues(buildSort, page[1])
        last == SortValues(buildSort, page[Len(page)])
    IN /\ searchReply.hasNext <=>
            \E d \in docs : Before(buildSort, last, SortValues(buildSort, d))
       /\ searchReply.hasPrev <=>
            \E d \in docs : Before(buildSort, SortValues(buildSort, d), first)

\* C29: an edge whose parentId equals its childId is never persisted: creating
\* it is rejected as a cycle, for a node with or without existing edges.
C29_SelfLoopRejected ==
  /\ \A e \in edges : e[1] # e[2]
  /\ \A c \in Callers :
       (call[c].op = "create" /\ call[c].pc = "done"
          /\ call[c].parentId = call[c].childId /\ call[c].parentId \in ConceptIds)
         => call[c].result = "BadRequest"

\* ------------------------------------------------------------------------
\* Specification of a stream over edge sets that contain a directed cycle
\* ------------------------------------------------------------------------
\* a two-cycle, a self-loop below a root, the diamond closed by D -> A, and
\* the diamond itself
CycleGraphs ==
  {{<<"A", "B">>, <<"B", "A">>},
   {<<"A", "B">>, <<"B", "B">>},
   Diamond \cup {<<"D", "A">>},
   Diamond}
CycleIds == {"B", "D"}

InitCycle ==
  /\ \E E \in CycleGraphs : InitStore(E)
  /\ InitStreamVars

StreamStep ==
  \/ StreamStart
  \/ BatchStart
  \/ \E i \in ItemSlots : ItemCacheGet(i)
  \/ \E i \in ItemSlots : ItemDbRead(i)
  \/ \E i \in ItemSlots : ItemCacheSet(i)
  \/ \E i \in ItemSlots : ItemResolve(i)
  \/ BatchEnd
  \/ StreamDone

NextCycle ==
  \/ \E n \in CycleIds, md \in MaxDepths, conc \in Concurrencies :
       streamPathsToRoot(n, md, DEFAULT_MAX_PATHS, conc)
  \/ StreamStep

\* every await of executeStream is answered and the continuation runs: a
\* step of the stream that stays possible is eventually taken
SpecCycle == InitCycle /\ [][NextCycle]_vars /\ WF_vars(StreamStep)

Running == stream.pc \in {"start", "loop", "batch"}

\* the Subject has completed and the last chunk delivered is done or error
Ended ==
  /\ stopped
  /\ events # <<>>
  /\ events[Len(events)].type \in {"done", "error"}

SimplePath(p) == \A j \in 1..Len(p) : \A k \in 1..Len(p) : j # k => p[j] # p[k]

\* every entry of the stack and of the running batch is a path without a
\* repeated node: there are finitely many, and each is visited at most once
OnlySimplePaths ==
  /\ \A k \in 1..Len(stream.queue) : SimplePath(stream.queue[k].currentPath)
  /\ \A i \in 1..Len(items) : SimplePath(items[i].currentPath)

\* C30: a paths-to-root stream over any finite edge set, including one that
\* contains a directed cycle, reaches its terminal event after finitely many
\* node visits.
C30_StreamTerminates ==
  /\ []OnlySimplePaths
  /\ Running ~> Ended

\* a stream over the diamond closed by D -> A has ended with its done chunk
\* after visiting D, B, C and A twice
C30_Witness ==
  /\ edges = Diamond \cup {<<"D", "A">>}
  /\ stream.conceptId = "D" /\ stream.maxDepth = DEFAULT_MAX_DEPTH
  /\ stream.pc = "done" /\ stopped
  /\ stream.nodesProcessed = 5
  /\ events # <<>> /\ events[Len(events)].type = "done"

====
